---- MODULE Spec2Model ----
(***************************************************************************)
(* Model of the load pipeline of src/app.py (KT dashboard): pick_col,      *)
(* load_clicks and load_conversions over the Postgres warehouse            *)
(* (fact_clicks_daily, fact_conversions_daily, dim_subid and the staging   *)
(* tables).                                                                *)
(*                                                                         *)
(* Encoding of values                                                      *)
(*   - a calendar day is a positive integer; NaT (0) is what               *)
(*     pd.to_datetime(errors="coerce") gives for text that does not parse; *)
(*   - a time cell of a CSV is <<day, hour>>; <<0, 0>> is text that does   *)
(*     not parse and <<>> is an empty cell;                                *)
(*   - a text cell of a CSV is a string; "" is an empty cell, which        *)
(*     read_csv turns into NaN; tracking ids are text tokens (a column     *)
(*     pandas would infer as numeric is outside the modelled inputs);      *)
(*   - NULL is the SQL null that COPY ... FORMAT CSV gives for the empty   *)
(*     field to_csv writes for NaN;                                        *)
(*   - dim_subid is modelled with its key and the column offer; the other  *)
(*     five attribute columns go through the same expressions, and         *)
(*     updated_at (now()) is left out.                                     *)
(* The variables named after tables hold the COMMITTED tables, which every *)
(* other session sees; tx holds the tables as the loading connection sees  *)
(* them inside its open transaction (engine.begin()).                      *)
(***************************************************************************)
EXTENDS Integers, Sequences, FiniteSets, TLC

VARIABLES
  fact_clicks_daily,       \* committed set of rows [day, subid, clicks]
  fact_conversions_daily,  \* committed set of rows [day, subid, leads, sales]
  dim_subid,               \* committed set of rows [subid, offer]
  staging_clicks_daily,    \* committed set of rows [day, subid, clicks]
  tx,                      \* the open transaction's view of all tables
  pc,                      \* "idle" | "clicks" | "conv" | "pick"
  header,                  \* the column names of the CSV being loaded
  file,                    \* the rows of the CSV being loaded
  rest,                    \* the rows df_iter has not yielded yet
  chunksize,               \* rows per chunk of df_iter
  mode,                    \* "replace_day" | "append"
  detected_day,            \* None_ | NaNf | a day
  chunks_done,
  total_rows,
  sale_time_col,           \* load_conversions: whether a sale-time column resolved
  result,                  \* how the last load ended, see NoResult
  loads,                   \* number of loads started so far
  pick,                    \* pick_col's arguments and outcome
  df                       \* the frame of the dashboard query that has just run

vars == <<fact_clicks_daily, fact_conversions_daily, dim_subid,
          staging_clicks_daily, tx, pc, header, file, rest, chunksize, mode,
          detected_day, chunks_done, total_rows, sale_time_col, result, loads,
          pick, df>>

-----------------------------------------------------------------------------
(* Bounds of the model *)

MaxRows == 2

MaxLoads == 2

MaxCols == 2

-----------------------------------------------------------------------------
(* Values *)

NaT == 0

None_ == 0 - 1

NaNf == 0 - 2

NaN == "<NaN>"

NULL == "<NULL>"

Days == {1, 2}

Min(S) == CHOOSE x \in S : \A y \in S : x <= y

\* pd.read_csv: an empty cell is a missing value
read_csv_cell(c) == IF c = "" THEN NaN ELSE c

\* Series.astype(str) of a text column: a missing value becomes the text "nan"
astype_str(v) == IF v = NaN THEN "nan" ELSE v

\* an empty time cell (read_csv gives NaN for it)
EmptyTime == <<>>

\* pd.to_datetime(col, errors="coerce").dt.date of one cell
to_date(t) == IF t # EmptyTime /\ t[1] \in Days THEN t[1] ELSE NaT

\* df.to_csv followed by COPY ... WITH (FORMAT CSV), one cell
copy_cell(v) == IF v = NaN THEN NULL ELSE v

\* drop table if exists T; create temporary table T (...): T is empty
drop_create(table) == {}

\* mutant of truncate: the rows of the earlier use stay
truncate_skipped(table) == table

\* truncate T
truncate(table) == {}

\* copy_df_to_table: COPY adds the rows of the frame to the table
copy_rows(table, rows) == table \cup rows

\* SQL nullif(a, b) and coalesce(a, b)
nullif(a, b) == IF a = NULL THEN NULL ELSE IF a = b THEN NULL ELSE a

coalesce(a, b) == IF a # NULL THEN a ELSE b

-----------------------------------------------------------------------------
(* pick_col *)
(* A column name or candidate is [base, upper, pad]: the word, whether it  *)
(* is written with capitals, and whether whitespace surrounds it.          *)

\* str.strip()
strip(c) == [c EXCEPT !.pad = FALSE]

\* str.lower()
str_lower(c) == [c EXCEPT !.upper = FALSE]

Max(S) == CHOOSE x \in S : \A y \in S : y <= x

NoCol == [base |-> "", upper |-> FALSE, pad |-> FALSE]

\* pick_col(df, candidates), columns being list(df.columns): [found, col];
\* found = FALSE is the KeyError. In a dict comprehension the last column
\* with a key is the one the key maps to.
pick_col(columns, candidates) ==
  LET cols     == 1..Len(columns)
      exact(i) == {j \in cols : strip(columns[j]) = candidates[i]}
      ci(i)    == {j \in cols :
                     strip(str_lower(columns[j])) = strip(str_lower(candidates[i]))}
      hit1     == {i \in 1..Len(candidates) : exact(i) # {}}
      hit2     == {i \in 1..Len(candidates) : ci(i) # {}}
  IN  IF hit1 # {}
        THEN [found |-> TRUE, col |-> columns[Max(exact(Min(hit1)))]]
        ELSE IF hit2 # {}
          THEN [found |-> TRUE, col |-> columns[Max(ci(Min(hit2)))]]
          ELSE [found |-> FALSE, col |-> NoCol]

\* a name written with capitals, and one written without
Cap(b) == [base |-> b, upper |-> TRUE, pad |-> FALSE]

Low(b) == [base |-> b, upper |-> FALSE, pad |-> FALSE]

\* the candidate lists of load_clicks (lines 190-199), in the order of the
\* calls; the Russian names are transliterated, and two candidates that differ
\* only in which letters are capitals are the same name here
click_candidates ==
  <<  <<Cap("vremya klika"), Cap("data i vremya"), Cap("click time"), Cap("click time")>>,
      <<Cap("subid"), Cap("subid"), Low("subid"), Cap("subid")>>,
      <<Cap("offer (ru)"), Cap("offer")>>,
      <<Cap("flag strany"), Cap("country flag"), Cap("flag")>>,
      <<Cap("os (ru)"), Cap("os")>>,
      <<Cap("sub id 2"), Cap("subid 2"), Cap("sub2"), Cap("sub id2")>>,
      <<Cap("kampaniya"), Cap("campaign")>>,
      <<Cap("sub id 1"), Cap("subid 1"), Cap("sub1"), Cap("sub id1")>>  >>

\* mutant of click_cols: only the time and tracking-id columns are required
click_cols_dims_optional(columns) ==
  [ok |-> \A c \in 1..2 : pick_col(columns, click_candidates[c]).found]

\* the eight pick_col calls of a chunk: ok = FALSE is the KeyError of the
\* first call that finds no column
click_cols(columns) ==
  [ok |-> \A c \in 1..Len(click_candidates) : pick_col(columns, click_candidates[c]).found]

\* the candidate lists of load_conversions (lines 328-330)
conv_candidates ==
  <<  <<Cap("subid"), Cap("subid"), Low("subid"), Cap("subid")>>,
      <<Cap("orig. status (ru)"), Cap("orig. status"), Cap("orig status"), Cap("status")>>,
      <<Cap("vremya konversii"), Cap("conversion time")>>  >>

\* the sale-time candidates, each tried alone (lines 332-338)
sale_time_candidates == <<Cap("vremya prodazhi"), Cap("sale time")>>

\* the column resolution of load_conversions (lines 328-338): ok = FALSE is
\* the KeyError of a required column; a sale-time column that is not found
\* leaves sale_time_col = None
conv_cols(columns) ==
  [ok |-> \A c \in 1..Len(conv_candidates) : pick_col(columns, conv_candidates[c]).found,
   sale_time_col |-> \E c \in 1..Len(sale_time_candidates) :
                        pick_col(columns, <<sale_time_candidates[c]>>).found]

-----------------------------------------------------------------------------
(* load_clicks: one chunk, as pandas and the SQL statements compute it *)

\* chunk["day"] and chunk["subid"] of one row (lines 201-202)
row_day(r) == to_date(r.time)

row_subid(r) == astype_str(read_csv_cell(r.subid))

\* chunk["day"].dropna().min(): the minimum of an empty Series is nan
day_min(chunk) ==
  LET ds == {row_day(chunk[i]) : i \in 1..Len(chunk)} \ {NaT}
  IN  IF ds = {} THEN NaNf ELSE Min(ds)

\* mutant of delete_day: no row is deleted
delete_day_skipped(fact, d) == fact

\* delete from fact_clicks_daily where day = :d
delete_day(fact, d) == {f \in fact : f.day # d}

\* dim: the selected columns, subid as text, rows with an empty subid
\* filtered out, drop_duplicates(subset=["subid"], keep="last")
dim_frame(chunk) ==
  LET sel  == [i \in 1..Len(chunk) |->
                 [subid |-> astype_str(read_csv_cell(chunk[i].subid)),
                  offer |-> read_csv_cell(chunk[i].offer)]]
      kept == {i \in 1..Len(chunk) : sel[i].subid # NaN /\ sel[i].subid # ""}
      last == {i \in kept : \A j \in kept : sel[j].subid = sel[i].subid => j <= i}
  IN  {sel[i] : i \in last}

\* copy_df_to_table of the dim frame
copy_dim(frame) == {[subid |-> copy_cell(d.subid), offer |-> copy_cell(d.offer)] : d \in frame}

\* mutant of update_dim: the staged value is taken as it is
update_dim_overwrite(dim, staging) ==
  {IF \E s \in staging : s.subid = d.subid
     THEN LET s == CHOOSE s \in staging : s.subid = d.subid
          IN  [d EXCEPT !.offer = s.offer]
     ELSE d : d \in dim}

\* update dim_subid d set offer = coalesce(nullif(s.offer,''), d.offer)
\*   from staging_dim_subid_tmp s where d.subid = s.subid
update_dim(dim, staging) ==
  {IF \E s \in staging : s.subid = d.subid
     THEN LET s == CHOOSE s \in staging : s.subid = d.subid
          IN  [d EXCEPT !.offer = coalesce(nullif(s.offer, ""), d.offer)]
     ELSE d : d \in dim}

\* insert into dim_subid select s.* from staging_dim_subid_tmp s
\*   left join dim_subid d on d.subid = s.subid where d.subid is null
insert_dim(dim, staging) ==
  dim \cup {s \in staging : ~ \E d \in dim : d.subid = s.subid}

\* chunk.dropna(subset=["day","subid"]).groupby(["day","subid"]).size()
agg_clicks(chunk) ==
  LET valid == {i \in 1..Len(chunk) : row_day(chunk[i]) # NaT}
      keys  == {<<row_day(chunk[i]), row_subid(chunk[i])>> : i \in valid}
  IN  {[day |-> k[1], subid |-> k[2],
        clicks |-> Cardinality({i \in valid :
                     row_day(chunk[i]) = k[1] /\ row_subid(chunk[i]) = k[2]})]
       : k \in keys}

HasKey(fact, d, s) == \E f \in fact : f.day = d /\ f.subid = s

\* mutant of merge_append: the conflict clause overwrites
merge_append_overwrite(fact, staging) ==
  {IF \E s \in staging : s.day = f.day /\ s.subid = f.subid
     THEN LET s == CHOOSE s \in staging : s.day = f.day /\ s.subid = f.subid
          IN  [f EXCEPT !.clicks = s.clicks]
     ELSE f : f \in fact}
  \cup {s \in staging : ~ \E f \in fact : f.day = s.day /\ f.subid = s.subid}

\* insert ... on conflict (day, subid)
\*   do update set clicks = fact_clicks_daily.clicks + excluded.clicks
merge_append(fact, staging) ==
  {IF \E s \in staging : s.day = f.day /\ s.subid = f.subid
     THEN LET s == CHOOSE s \in staging : s.day = f.day /\ s.subid = f.subid
          IN  [f EXCEPT !.clicks = f.clicks + s.clicks]
     ELSE f : f \in fact}
  \cup {s \in staging : ~ HasKey(fact, s.day, s.subid)}

\* mutant of merge_replace: a plain insert, the rows of existing keys included
merge_replace_no_conflict(fact, staging) == fact \cup staging

\* insert ... on conflict (day, subid) do update set clicks = excluded.clicks
merge_replace(fact, staging) ==
  {IF \E s \in staging : s.day = f.day /\ s.subid = f.subid
     THEN LET s == CHOOSE s \in staging : s.day = f.day /\ s.subid = f.subid
          IN  [f EXCEPT !.clicks = s.clicks]
     ELSE f : f \in fact}
  \cup {s \in staging : ~ HasKey(fact, s.day, s.subid)}

\* mutant of detect_step: the day is detected, and deleted, on every chunk
detect_step_every_chunk(t, chunk, m, dd) ==
  LET d == day_min(chunk)
  IN  IF m # "replace_day" \/ d = NaNf
        THEN [ok |-> TRUE, tx |-> t, detected_day |-> d]
        ELSE [ok |-> TRUE,
              tx |-> [t EXCEPT !.fact_clicks_daily = delete_day(@, d)],
              detected_day |-> d]

\* lines 204-209: the day is detected on the first chunk only; in replace_day
\* mode the rows of that day are deleted. [ok, tx, detected_day]
detect_step(t, chunk, m, dd) ==
  IF dd # None_
    THEN [ok |-> TRUE, tx |-> t, detected_day |-> dd]
    ELSE LET d == day_min(chunk)
         IN  IF m # "replace_day"
               THEN [ok |-> TRUE, tx |-> t, detected_day |-> d]
               ELSE IF d = NaNf
                 \* nan is "not None": the delete runs with a float parameter,
                 \* which Postgres cannot compare with a date
                 THEN [ok |-> FALSE, tx |-> t, detected_day |-> d]
                 ELSE [ok |-> TRUE,
                       tx |-> [t EXCEPT !.fact_clicks_daily = delete_day(@, d)],
                       detected_day |-> d]

\* lines 211-270: the dimension snapshot through staging_dim_subid_tmp
dim_step(t, chunk) ==
  LET frame == dim_frame(chunk)
      t0    == [t EXCEPT !.staging_dim_subid_tmp = drop_create(@)]
  IN  IF frame = {}
        THEN t0
        ELSE LET st == copy_rows(t0.staging_dim_subid_tmp, copy_dim(frame))
                 up == update_dim(t0.dim_subid, st)
             IN  [t0 EXCEPT !.staging_dim_subid_tmp = st,
                            !.dim_subid = insert_dim(up, st)]

\* lines 274-315: the click aggregate through staging_clicks_daily
fact_step(t, chunk, m) ==
  LET agg == agg_clicks(chunk)
  IN  IF agg = {}
        THEN t
        ELSE LET st == copy_rows(truncate(t.staging_clicks_daily), agg)
             IN  [t EXCEPT !.staging_clicks_daily = st,
                           !.fact_clicks_daily =
                              IF m = "append" THEN merge_append(@, st)
                                              ELSE merge_replace(@, st)]

\* mutant of chunk_step: the mode argument is not honoured (always append)
chunk_step_mode_ignored(t, chunk, m, dd) ==
  LET a == detect_step(t, chunk, "append", dd)
  IN  IF ~ a.ok
        THEN a
        ELSE [a EXCEPT !.tx = fact_step(dim_step(a.tx, chunk), chunk, "append")]

\* the body of "for chunk in df_iter" (lines 188-317)
chunk_step(t, chunk, m, dd) ==
  LET a == detect_step(t, chunk, m, dd)
  IN  IF ~ a.ok
        THEN a
        ELSE [a EXCEPT !.tx = fact_step(dim_step(a.tx, chunk), chunk, m)]

\* the chunk df_iter yields next, and what is left after it
Take(s, n) == SubSeq(s, 1, IF Len(s) < n THEN Len(s) ELSE n)

Drop(s, n) == SubSeq(s, (IF Len(s) < n THEN Len(s) ELSE n) + 1, Len(s))

-----------------------------------------------------------------------------
(* load_conversions, as pandas and the SQL statements compute it *)

\* str.lower() of the status texts of the modelled files
lower(s) ==
  CASE s = "Sale" -> "sale"
    [] s = "LEAD" -> "lead"
    [] OTHER -> s

\* mutant of row_status: the status text is compared as written
row_status_as_written(r) == astype_str(read_csv_cell(r.status))

\* df["_status"], df["day_lead"] of one row (lines 341-343)
row_status(r) == lower(astype_str(read_csv_cell(r.status)))

row_day_lead(r) == to_date(r.conv_time)

\* mutant of row_sale_time: no fallback for an empty sale-time cell
row_sale_time_no_fallback(r, has_sale_col) ==
  IF has_sale_col THEN r.sale_time ELSE r.conv_time

\* sale_time of one row (lines 345-351): the sale-time cell where the column
\* exists and the cell is neither NaN nor "", else the conversion-time cell
row_sale_time(r, has_sale_col) ==
  IF has_sale_col
    THEN IF r.sale_time # EmptyTime THEN r.sale_time ELSE r.conv_time
    ELSE r.conv_time

row_day_sale(r, has_sale_col) == to_date(row_sale_time(r, has_sale_col))

\* leads (lines 355-362): rows [day, subid, leads]
agg_leads(rows) ==
  LET sel  == {i \in 1..Len(rows) :
                 row_status(rows[i]) = "lead" /\ row_day_lead(rows[i]) # NaT}
      keys == {<<row_day_lead(rows[i]), row_subid(rows[i])>> : i \in sel}
  IN  {[day |-> k[1], subid |-> k[2],
        leads |-> Cardinality({i \in sel :
                    row_day_lead(rows[i]) = k[1] /\ row_subid(rows[i]) = k[2]})]
       : k \in keys}

\* sales (lines 364-371): rows [day, subid, sales]
agg_sales(rows, has_sale_col) ==
  LET sel  == {i \in 1..Len(rows) :
                 row_status(rows[i]) = "sale" /\ row_day_sale(rows[i], has_sale_col) # NaT}
      keys == {<<row_day_sale(rows[i], has_sale_col), row_subid(rows[i])>> : i \in sel}
  IN  {[day |-> k[1], subid |-> k[2],
        sales |-> Cardinality({i \in sel :
                    row_day_sale(rows[i], has_sale_col) = k[1] /\ row_subid(rows[i]) = k[2]})]
       : k \in keys}

\* pd.merge(leads, sales, on=["day","subid"], how="outer").fillna(0)
merge_outer(leads, sales) ==
  LET keys == {<<l.day, l.subid>> : l \in leads} \cup {<<x.day, x.subid>> : x \in sales}
  IN  {[day |-> k[1], subid |-> k[2],
        leads |-> IF \E l \in leads : l.day = k[1] /\ l.subid = k[2]
                    THEN (CHOOSE l \in leads : l.day = k[1] /\ l.subid = k[2]).leads
                    ELSE 0,
        sales |-> IF \E x \in sales : x.day = k[1] /\ x.subid = k[2]
                    THEN (CHOOSE x \in sales : x.day = k[1] /\ x.subid = k[2]).sales
                    ELSE 0]
       : k \in keys}

\* merged (lines 340-377)
conv_merged(rows, has_sale_col) == merge_outer(agg_leads(rows), agg_sales(rows, has_sale_col))

\* mutant of update_conv: the counts are added to the existing ones
update_conv_additive(fact, staging) ==
  {IF \E s \in staging : s.day = f.day /\ s.subid = f.subid
     THEN LET s == CHOOSE s \in staging : s.day = f.day /\ s.subid = f.subid
          IN  [f EXCEPT !.leads = f.leads + s.leads, !.sales = f.sales + s.sales]
     ELSE f : f \in fact}

\* mutant of update_conv: the rows of the staged days are replaced as a whole
update_conv_clears_day(fact, staging) ==
  {IF \E s \in staging : s.day = f.day /\ s.subid = f.subid
     THEN LET s == CHOOSE s \in staging : s.day = f.day /\ s.subid = f.subid
          IN  [f EXCEPT !.leads = s.leads, !.sales = s.sales]
     ELSE f : f \in {g \in fact : \A s \in staging :
                                   s.day = g.day => \E u \in staging : u.day = g.day /\ u.subid = g.subid}}

\* update fact_conversions_daily f set leads = s.leads, sales = s.sales
\*   from staging_conversions_tmp s where f.day = s.day and f.subid = s.subid
update_conv(fact, staging) ==
  {IF \E s \in staging : s.day = f.day /\ s.subid = f.subid
     THEN LET s == CHOOSE s \in staging : s.day = f.day /\ s.subid = f.subid
          IN  [f EXCEPT !.leads = s.leads, !.sales = s.sales]
     ELSE f : f \in fact}

\* insert into fact_conversions_daily select s.* from staging_conversions_tmp s
\*   left join fact_conversions_daily f on ... where f.subid is null
insert_conv(fact, staging) ==
  fact \cup {s \in staging : ~ HasKey(fact, s.day, s.subid)}

\* mutant of conv_step: the block also empties fact_clicks_daily
conv_step_clears_clicks(t, merged) ==
  [t EXCEPT !.fact_clicks_daily = {},
            !.fact_conversions_daily = insert_conv(update_conv(@, merged), merged)]

\* the with-block of load_conversions (lines 381-425), before its commit
conv_step(t, merged) ==
  LET t0 == drop_create(t.staging_conversions_tmp)
      st == IF merged = {} THEN t0 ELSE copy_rows(t0, merged)
  IN  [t EXCEPT !.staging_conversions_tmp = st,
                !.fact_conversions_daily = insert_conv(update_conv(@, st), st)]

\* load_conversions as a whole, from the tables t its transaction begins with
load_conversions(t, rows, has_sale_col) == conv_step(t, conv_merged(rows, has_sale_col))

-----------------------------------------------------------------------------
(* The dashboard query (lines 462-491) *)

\* the NULL of a numeric column
NULLn == 0 - 1

\* coalesce(x, 0) of a numeric column
coalesce0(x) == IF x = NULLn THEN 0 ELSE x

\* mutant of read_query: inner joins, only the keys both fact tables hold
read_query_inner_join(fc, fv, dim) ==
  {[day |-> c.day, subid |-> c.subid, clicks |-> c.clicks, leads |-> v.leads,
    sales |-> v.sales, offer |-> NULL] :
     <<c, v>> \in {x \in fc \X fv : x[1].day = x[2].day /\ x[1].subid = x[2].subid}}

\* the query: keys is the union of the keys of the two fact tables, left
\* joined to the rows of fact_clicks_daily, of fact_conversions_daily and of
\* dim_subid; a left join without a match gives one row of NULLs. The rows
\* are a set: order by is left out, and of dim_subid only offer is selected.
read_query(fc, fv, dim) ==
  LET keys  == {<<c.day, c.subid>> : c \in fc} \cup {<<v.day, v.subid>> : v \in fv}
      C(k)  == LET m == {c.clicks : c \in {x \in fc : x.day = k[1] /\ x.subid = k[2]}}
               IN  IF m = {} THEN {NULLn} ELSE m
      V(k)  == LET m == {<<v.leads, v.sales>> :
                           v \in {x \in fv : x.day = k[1] /\ x.subid = k[2]}}
               IN  IF m = {} THEN {<<NULLn, NULLn>>} ELSE m
      D(k)  == LET m == {d.offer : d \in {x \in dim : x.subid = k[2]}}
               IN  IF m = {} THEN {NULL} ELSE m
  IN  UNION {{[day |-> k[1], subid |-> k[2], clicks |-> coalesce0(c),
               leads |-> coalesce0(v[1]), sales |-> coalesce0(v[2]), offer |-> d] :
                <<c, v, d>> \in C(k) \X V(k) \X D(k)} : k \in keys}

\* mutant of reader_view: the query reads what the open transaction wrote
reader_view_uncommitted(fc, fv, dim, t) ==
  IF t.fact_clicks_daily = fc /\ t.fact_conversions_daily = fv /\ t.dim_subid = dim
    THEN [fact_clicks_daily |-> fc, fact_conversions_daily |-> fv, dim_subid |-> dim]
    ELSE [fact_clicks_daily |-> t.fact_clicks_daily,
          fact_conversions_daily |-> t.fact_conversions_daily, dim_subid |-> t.dim_subid]

\* pd.read_sql(query, engine) runs on a connection of its own: it reads the
\* committed tables, whatever a load's open transaction t has written
reader_view(fc, fv, dim, t) ==
  [fact_clicks_daily |-> fc, fact_conversions_daily |-> fv, dim_subid |-> dim]

\* no query has run since the last step of a load
NoDf == [read |-> FALSE, rows |-> {}]

-----------------------------------------------------------------------------
(* The transaction of one load (engine.begin()) *)

\* the tables as a connection sees them when its transaction begins
Begin(fc, fv, dim, sc) ==
  [fact_clicks_daily      |-> fc,
   fact_conversions_daily |-> fv,
   dim_subid              |-> dim,
   staging_clicks_daily   |-> sc,
   staging_dim_subid_tmp  |-> {},
   staging_conversions_tmp |-> {}]

\* no transaction is open
NoTx == Begin({}, {}, {}, {})

\* load_clicks as a whole, from the tables t its transaction begins with:
\* [ok, tx], tx being what the commit publishes when ok
RECURSIVE run_chunks(_, _, _, _, _)
run_chunks(t, rows, cs, m, dd) ==
  IF rows = <<>>
    THEN [ok |-> TRUE, tx |-> t]
    ELSE LET r == chunk_step(t, Take(rows, cs), m, dd)
         IN  IF ~ r.ok
               THEN [ok |-> FALSE, tx |-> t]
               ELSE run_chunks(r.tx, Drop(rows, cs), cs, m, r.detected_day)

load_clicks(t, rows, cs, m) == run_chunks(t, rows, cs, m, None_)

-----------------------------------------------------------------------------
(* Inputs *)

Modes == {"replace_day", "append"}

ChunkSizes == 1..MaxRows

ClickOffers == {"", "A", "B"}

\* click rows for the fact table: two days of one tracking id, and a row
\* whose tracking-id cell is empty
ClickRows ==
  [time : {<<1, 10>>, <<2, 10>>}, subid : {"s42"}, offer : {"A"}]
  \cup {[time |-> <<1, 10>>, subid |-> "", offer |-> "A"]}

\* click rows for the dimension table: every offer value of one tracking id,
\* and a row whose time does not parse
DimRows ==
  [time : {<<1, 10>>}, subid : {"s42"}, offer : ClickOffers]
  \cup {[time |-> <<0, 0>>, subid |-> "s42", offer |-> "B"]}

SeqsUpTo(S, n) == UNION {[1..k -> S] : k \in 1..n}

\* the header of a click export and of a conversion export
ClickHeader ==
  <<Cap("click time"), Cap("subid"), Cap("offer"), Cap("country flag"), Cap("os"),
    Cap("sub id 2"), Cap("campaign"), Cap("sub id 1")>>

ConvHeader == <<Cap("subid"), Cap("status"), Cap("conversion time"), Cap("sale time")>>

\* a conversion export without the sale-time column
ConvHeaderNoSale == SubSeq(ConvHeader, 1, 3)

ClickFiles == SeqsUpTo(ClickRows, MaxRows)

DimFiles == SeqsUpTo(DimRows, MaxRows)

ConvStatuses == {"lead", "Sale", "other"}

ConvRows ==
  [subid : {"s42"}, status : ConvStatuses,
   conv_time : {<<1, 10>>, <<0, 0>>}, sale_time : {EmptyTime, <<2, 11>>}]

\* a conversion file: its rows, and whether it has a sale-time column
ConvFiles ==
  {[header |-> ConvHeader, rows |-> rs] : rs \in SeqsUpTo(ConvRows, MaxRows)}
  \cup {[header |-> ConvHeaderNoSale, rows |-> rs] :
          rs \in SeqsUpTo({r \in ConvRows : r.sale_time = EmptyTime}, MaxRows)}

\* the files of a warehouse that takes click and conversion loads in turn
FewClickFiles ==
  SeqsUpTo([time : {<<1, 10>>, <<2, 10>>}, subid : {"s42"}, offer : {"A"}], MaxRows)

FewConvFiles ==
  {[header |-> ConvHeader, rows |-> rs] :
     rs \in SeqsUpTo([subid : {"s42"}, status : {"lead", "Sale"}, conv_time : {<<1, 10>>},
                      sale_time : {EmptyTime, <<2, 11>>}], MaxRows)}

\* successive versions of one day's conversion file, for two tracking ids
VersionConvFiles ==
  {[header |-> ConvHeader, rows |-> rs] :
     rs \in SeqsUpTo([subid : {"s42", "s7"}, status : ConvStatuses, conv_time : {<<1, 10>>},
                      sale_time : {EmptyTime}], MaxRows)}

\* a header without its i-th column
Without(h, i) == SubSeq(h, 1, i - 1) \o SubSeq(h, i + 1, Len(h))

\* the header written in small letters with whitespace around every name
Sloppy(h) == [i \in 1..Len(h) |-> [h[i] EXCEPT !.upper = FALSE, !.pad = TRUE]]

\* exports whose header lacks a column, or spells the names differently
ClickHeaders ==
  {ClickHeader, Sloppy(ClickHeader)} \cup {Without(ClickHeader, i) : i \in 1..Len(ClickHeader)}

ConvHeaders ==
  {ConvHeader, Sloppy(ConvHeader)} \cup {Without(ConvHeader, i) : i \in 1..Len(ConvHeader)}

\* click_cols and conv_cols of every header of the model
click_resolved == [h \in ClickHeaders |-> click_cols(h)]

conv_resolved == [h \in ConvHeaders |-> conv_cols(h)]

ColClickFiles == SeqsUpTo({[time |-> <<1, 10>>, subid |-> "s42", offer |-> "A"]}, MaxRows)

ColConvFiles ==
  {[header |-> h, rows |-> rs] :
     h \in ConvHeaders,
     rs \in SeqsUpTo({[subid |-> "s42", status |-> "Sale", conv_time |-> <<1, 10>>,
                       sale_time |-> EmptyTime]}, MaxRows)}

ColNames == [base : {"a", "b"}, upper : BOOLEAN, pad : BOOLEAN]

\* the headers of a CSV are distinct (read_csv renames a repeated one)
Headers == {h \in SeqsUpTo(ColNames, MaxCols) :
             \A i, j \in 1..Len(h) : h[i] = h[j] => i = j}

Candidates == SeqsUpTo(ColNames, MaxCols)

NoPick == [columns |-> <<>>, candidates |-> <<>>, called |-> FALSE,
           found |-> FALSE, col |-> NoCol]

\* no load has ended since the last one started
NoResult == [status |-> "none", kind |-> "none", exc |-> "none", chunk |-> 0, dirty |-> FALSE]

-----------------------------------------------------------------------------
(* Actions *)

Init ==
  /\ fact_clicks_daily = {}
  /\ fact_conversions_daily = {}
  /\ dim_subid = {}
  /\ staging_clicks_daily = {}
  /\ tx = NoTx
  /\ pc = "idle"
  /\ header = <<>>
  /\ file = <<>>
  /\ rest = <<>>
  /\ chunksize = 1
  /\ mode = "replace_day"
  /\ detected_day = None_
  /\ chunks_done = 0
  /\ total_rows = 0
  /\ sale_time_col = FALSE
  /\ result = NoResult
  /\ loads = 0
  /\ pick = NoPick
  /\ df = NoDf

Tables == <<fact_clicks_daily, fact_conversions_daily, dim_subid, staging_clicks_daily>>

\* the load returns or raises: its locals are gone
Return(kind, res) ==
  /\ pc' = "idle"
  /\ tx' = NoTx
  /\ result' =
       [status |-> res,
        kind   |-> kind,
        \* the exception: the KeyError of pick_col, or the error of a statement
        exc    |-> IF res # "error" THEN "none"
                   ELSE IF kind = "clicks" /\ ~ click_resolved[header].ok THEN "KeyError"
                   ELSE "Error",
        \* of a failure: the chunk it happened in, and whether the
        \* transaction had changed a fact table by then
        chunk  |-> IF res = "error" THEN chunks_done + 1 ELSE 0,
        dirty  |-> res = "error"
                   /\ (tx.fact_clicks_daily # fact_clicks_daily
                       \/ tx.fact_conversions_daily # fact_conversions_daily)]
  /\ header' = <<>>
  /\ file' = <<>>
  /\ rest' = <<>>
  /\ chunksize' = 1
  /\ mode' = "replace_day"
  /\ detected_day' = None_
  /\ chunks_done' = 0
  /\ total_rows' = 0
  /\ sale_time_col' = FALSE
  /\ df' = NoDf
  /\ UNCHANGED <<pick, loads>>

\* mutant of Rollback: what the chunks before the failure wrote stays
RollbackKeepsChunks(kind) ==
  /\ Return(kind, "error")
  /\ fact_clicks_daily' = tx.fact_clicks_daily
  /\ fact_conversions_daily' = tx.fact_conversions_daily
  /\ dim_subid' = tx.dim_subid
  /\ staging_clicks_daily' = tx.staging_clicks_daily

\* the with-block is left by an exception: the transaction is rolled back
Rollback(kind) ==
  /\ Return(kind, "error")
  /\ UNCHANGED Tables

\* the with-block is left normally: the transaction commits, and the
\* temporary tables are dropped (on commit drop)
Commit(kind) ==
  /\ Return(kind, "ok")
  /\ fact_clicks_daily' = tx.fact_clicks_daily
  /\ fact_conversions_daily' = tx.fact_conversions_daily
  /\ dim_subid' = tx.dim_subid
  /\ staging_clicks_daily' = tx.staging_clicks_daily

\* load_clicks(file, mode) up to the first chunk (lines 163-186), for a
\* file with the header h and the rows f
StartLoadClicks(h, f, m, cs) ==
  /\ pc = "idle"
  /\ loads < MaxLoads
  /\ loads' = loads + 1
  /\ pc' = "clicks"
  /\ header' = h
  /\ file' = f
  /\ rest' = f
  /\ chunksize' = cs
  /\ mode' = m
  /\ detected_day' = None_
  /\ chunks_done' = 0
  /\ total_rows' = 0
  /\ tx' = Begin(fact_clicks_daily, fact_conversions_daily, dim_subid, staging_clicks_daily)
  /\ result' = NoResult
  /\ df' = NoDf
  /\ UNCHANGED <<Tables, pick, sale_time_col>>

\* one iteration of "for chunk in df_iter" (lines 187-317)
ClickChunk ==
  /\ pc = "clicks"
  /\ rest # <<>>
  /\ LET chunk == Take(rest, chunksize)
         r     == chunk_step(tx, chunk, mode, detected_day)
     IN  IF click_resolved[header].ok /\ r.ok
           THEN /\ tx' = r.tx
                /\ detected_day' = r.detected_day
                /\ rest' = Drop(rest, chunksize)
                /\ chunks_done' = chunks_done + 1
                /\ total_rows' = total_rows + Len(chunk)
                /\ df' = NoDf
                /\ UNCHANGED <<Tables, pc, header, file, chunksize, mode, result, loads,
                               pick, sale_time_col>>
           ELSE Rollback("clicks")

\* a statement of the chunk fails (connection loss, bulk-load error)
ClickFail ==
  /\ pc = "clicks"
  /\ rest # <<>>
  /\ click_resolved[header].ok
  /\ Rollback("clicks")

\* df_iter is exhausted: the with-block ends (line 317 to 320)
ClickCommit ==
  /\ pc = "clicks"
  /\ rest = <<>>
  /\ Commit("clicks")

\* an exception leaves the function before its transaction has begun
Raise(kind) ==
  /\ pc' = "idle"
  /\ result' = [status |-> "error", kind |-> kind, exc |-> "KeyError", chunk |-> 0,
                 dirty |-> FALSE]
  /\ df' = NoDf
  /\ UNCHANGED <<Tables, tx, header, file, rest, chunksize, mode, detected_day,
                 chunks_done, total_rows, sale_time_col, pick>>

\* load_conversions(file) up to the end of its with-block (lines 323-425),
\* or up to the KeyError of a required column (lines 328-330)
LoadConversions(f) ==
  /\ pc = "idle"
  /\ loads < MaxLoads
  /\ loads' = loads + 1
  /\ LET cols == conv_resolved[f.header]
     IN  IF cols.ok
           THEN /\ pc' = "conv"
                /\ header' = f.header
                /\ file' = f.rows
                /\ rest' = <<>>
                /\ sale_time_col' = cols.sale_time_col
                /\ tx' = load_conversions(
                            Begin(fact_clicks_daily, fact_conversions_daily, dim_subid,
                                  staging_clicks_daily),
                            f.rows, cols.sale_time_col)
                /\ result' = NoResult
                /\ df' = NoDf
                /\ UNCHANGED <<Tables, pick, chunksize, mode, detected_day, chunks_done,
                               total_rows>>
           ELSE Raise("conv")

\* a statement of the with-block fails (connection loss, bulk-load error)
ConvFail ==
  /\ pc = "conv"
  /\ Rollback("conv")

\* the with-block ends (line 425 to 427)
ConvCommit ==
  /\ pc = "conv"
  /\ Commit("conv")

NextConv ==
  \/ \E f \in ConvFiles : LoadConversions(f)
  \/ ConvFail
  \/ ConvCommit

SpecConv == Init /\ [][NextConv]_vars

NextVersions ==
  \/ \E f \in VersionConvFiles : LoadConversions(f)
  \/ ConvFail
  \/ ConvCommit

SpecVersions == Init /\ [][NextVersions]_vars

NextClicks ==
  \/ \E f \in ClickFiles, m \in Modes, cs \in ChunkSizes :
        StartLoadClicks(ClickHeader, f, m, cs)
  \/ ClickChunk
  \/ ClickFail
  \/ ClickCommit

SpecClicks == Init /\ [][NextClicks]_vars

NextDim ==
  \/ \E f \in DimFiles, m \in Modes, cs \in ChunkSizes :
        StartLoadClicks(ClickHeader, f, m, cs)
  \/ ClickChunk
  \/ ClickFail
  \/ ClickCommit

SpecDim == Init /\ [][NextDim]_vars

\* a call pick_col(df, candidates)
InitPick ==
  /\ fact_clicks_daily = {}
  /\ fact_conversions_daily = {}
  /\ dim_subid = {}
  /\ staging_clicks_daily = {}
  /\ tx = NoTx
  /\ pc = "pick"
  /\ header = <<>>
  /\ file = <<>>
  /\ rest = <<>>
  /\ chunksize = 1
  /\ mode = "replace_day"
  /\ detected_day = None_
  /\ chunks_done = 0
  /\ total_rows = 0
  /\ sale_time_col = FALSE
  /\ result = NoResult
  /\ loads = 0
  /\ df = NoDf
  /\ \E h \in Headers, c \in Candidates :
        pick = [NoPick EXCEPT !.columns = h, !.candidates = c]

PickCol ==
  /\ pc = "pick"
  /\ ~ pick.called
  /\ LET r == pick_col(pick.columns, pick.candidates)
     IN  pick' = [pick EXCEPT !.called = TRUE, !.found = r.found, !.col = r.col]
  /\ UNCHANGED <<Tables, tx, pc, header, file, rest, chunksize, mode, detected_day,
                 chunks_done, total_rows, sale_time_col, result, loads, df>>

NextPick == PickCol

SpecPick == InitPick /\ [][NextPick]_vars

\* the dashboard query of a session (lines 462-491), at any time, also
\* while another session's load is in progress
Read ==
  /\ pc \in {"idle", "clicks", "conv"}
  /\ ~ df.read
  /\ LET v == reader_view(fact_clicks_daily, fact_conversions_daily, dim_subid, tx)
     IN  df' = [read |-> TRUE,
                rows |-> read_query(v.fact_clicks_daily, v.fact_conversions_daily,
                                    v.dim_subid)]
  /\ UNCHANGED <<Tables, tx, pc, header, file, rest, chunksize, mode, detected_day,
                 chunks_done, total_rows, sale_time_col, result, loads, pick>>

\* loads of files whose header may lack a column
NextCols ==
  \/ \E h \in ClickHeaders, f \in ColClickFiles, m \in Modes, cs \in ChunkSizes :
        StartLoadClicks(h, f, m, cs)
  \/ ClickChunk
  \/ ClickFail
  \/ ClickCommit
  \/ \E f \in ColConvFiles : LoadConversions(f)
  \/ ConvFail
  \/ ConvCommit

SpecCols == Init /\ [][NextCols]_vars

Next ==
  \/ \E f \in FewClickFiles, m \in Modes, cs \in ChunkSizes :
        StartLoadClicks(ClickHeader, f, m, cs)
  \/ ClickChunk
  \/ ClickFail
  \/ ClickCommit
  \/ \E f \in FewConvFiles : LoadConversions(f)
  \/ ConvFail
  \/ ConvCommit
  \/ Read

Spec == Init /\ [][Next]_vars

-----------------------------------------------------------------------------
(* Properties *)

\* every chunk of the click file is merged; the with-block is about to commit
Done == pc = "clicks" /\ rest = <<>>

\* the with-block of load_conversions is about to commit
ConvDone == pc = "conv"

\* the committed tables, as the next transaction sees them
Committed == Begin(fact_clicks_daily, fact_conversions_daily, dim_subid, staging_clicks_daily)

\* the tables the next transaction sees once t is committed
After(t) == Begin(t.fact_clicks_daily, t.fact_conversions_daily, t.dim_subid,
                  t.staging_clicks_daily)

UniqueKeys(fact) == \A f, g \in fact : f.day = g.day /\ f.subid = g.subid => f = g

ClicksAt(fact, d, s) ==
  IF HasKey(fact, d, s)
    THEN (CHOOSE f \in fact : f.day = d /\ f.subid = s).clicks
    ELSE 0

DayRows(fact, d) == {f \in fact : f.day = d}

KeysOf(fact) == {<<f.day, f.subid>> : f \in fact}

\* C1: loading the same click file again in replace_day mode leaves the
\* ClickFact rows of the file's day as the first load left them, one row per key.
C1_ReplaceDayIdempotent ==
  Done /\ mode = "replace_day" =>
    LET again == load_clicks(After(tx), file, chunksize, mode)
    IN  /\ again.ok
        /\ UniqueKeys(again.tx.fact_clicks_daily)
        /\ DayRows(again.tx.fact_clicks_daily, detected_day)
             = DayRows(tx.fact_clicks_daily, detected_day)

\* a replace_day load of two chunks that removed a stale row of the file's day
C1_Witness ==
  /\ Done
  /\ mode = "replace_day"
  /\ chunks_done = 2
  /\ DayRows(tx.fact_clicks_daily, detected_day) # {}
  /\ \E f \in fact_clicks_daily :
       f.day = detected_day /\ ~ HasKey(tx.fact_clicks_daily, f.day, f.subid)

\* C2: the ClickFact table a load leaves is the same for every chunk size.
C2_ChunkSizeIndependent ==
  Done =>
    \A cs \in ChunkSizes :
      LET other == load_clicks(Committed, file, cs, mode)
      IN  other.ok => other.tx.fact_clicks_daily = tx.fact_clicks_daily

\* C3: an append load adds to every key what its file gives when loaded
\* alone into an empty ClickFact; so after an append load of one file into
\* an empty ClickFact, an append load of a second file leaves every key with
\* the sum of the two single-file results.
C3_AppendAdditive ==
  Done /\ mode = "append" =>
    LET alone == load_clicks(NoTx, file, chunksize, "append")
    IN  /\ alone.ok
        /\ UniqueKeys(tx.fact_clicks_daily)
        /\ \A k \in KeysOf(tx.fact_clicks_daily) \cup KeysOf(fact_clicks_daily)
                      \cup KeysOf(alone.tx.fact_clicks_daily) :
             ClicksAt(tx.fact_clicks_daily, k[1], k[2])
               = ClicksAt(fact_clicks_daily, k[1], k[2])
                 + ClicksAt(alone.tx.fact_clicks_daily, k[1], k[2])

\* ClickFact held what an append load of some file alone gives, and the
\* second file, read in two chunks, has a key of the first on the same day
C3_Witness ==
  /\ Done
  /\ mode = "append"
  /\ chunks_done = 2
  /\ \E f \in fact_clicks_daily :
       /\ HasKey(load_clicks(NoTx, file, chunksize, "append").tx.fact_clicks_daily,
                 f.day, f.subid)
       /\ ClicksAt(tx.fact_clicks_daily, f.day, f.subid) > f.clicks
  /\ \E a \in ClickFiles :
       load_clicks(NoTx, a, chunksize, "append").tx.fact_clicks_daily = fact_clicks_daily

\* C7: after a replace_day load, every (day, tracking_id) of the file holds
\* the number of file rows of that tracking id whose time parses to that day.
C7_ClickCount ==
  Done /\ mode = "replace_day" =>
    \A i \in 1..Len(file) :
      row_day(file[i]) # NaT /\ file[i].subid # "" =>
        ClicksAt(tx.fact_clicks_daily, row_day(file[i]), row_subid(file[i]))
          = Cardinality({j \in 1..Len(file) :
                           /\ row_subid(file[j]) = row_subid(file[i])
                           /\ row_day(file[j]) = row_day(file[i])})

HasOffer(v) == v # NULL /\ v # ""

\* C5: after a replace_day load of a file in which a tracking id has a row
\* with an offer and a later row of the same day with an empty offer,
\* TrackingDimension holds that offer for the tracking id.
C5_EndToEndOffer ==
  Done /\ mode = "replace_day" =>
    \A i, j \in 1..Len(file) :
      ( /\ i < j
        /\ file[i].subid # ""
        /\ file[j].subid = file[i].subid
        /\ file[i].offer # ""
        /\ file[j].offer = ""
        /\ row_day(file[i]) # NaT
        /\ row_day(file[j]) = row_day(file[i])
        /\ \A k \in 1..Len(file) :
             file[k].subid = file[i].subid => file[k].offer \in {"", file[i].offer} )
      => \E d \in tx.dim_subid : d.subid = file[i].subid /\ d.offer = file[i].offer

\* C6: a click load never replaces a non-empty offer of an existing tracking
\* id by an empty or missing one; a chunk whose row for the tracking id has an
\* empty offer leaves the offer, and one with a non-empty offer sets it.
C6_DimNonErasure ==
  [][ /\ \A d \in dim_subid :
           HasOffer(d.offer) =>
             \E e \in dim_subid' : e.subid = d.subid /\ HasOffer(e.offer)
      /\ (pc = "clicks" /\ pc' = "clicks") =>
           LET chunk == Take(rest, chunksize)
           IN  \A d \in tx.dim_subid :
                 LET idx == {i \in 1..Len(chunk) : row_subid(chunk[i]) = d.subid}
                     e   == CHOOSE e \in tx.dim_subid' : e.subid = d.subid
                 IN  /\ \E x \in tx.dim_subid' : x.subid = d.subid
                     /\ \A x, y \in tx.dim_subid' : x.subid = y.subid => x = y
                     /\ e.offer = IF idx = {} \/ chunk[Max(idx)].offer = ""
                                    THEN d.offer
                                    ELSE chunk[Max(idx)].offer
    ]_vars

\* an existing offer "A" met a chunk with an empty offer, then one with "B"
C6_Witness ==
  /\ Done
  /\ chunks_done = 2
  /\ Len(file) = 2
  /\ file[1].subid = "s42" /\ file[1].offer = ""
  /\ file[2].subid = "s42" /\ file[2].offer = "B"
  /\ [subid |-> "s42", offer |-> "A"] \in dim_subid
  /\ [subid |-> "s42", offer |-> "B"] \in tx.dim_subid

SalesAt(fact, d, s) ==
  IF HasKey(fact, d, s)
    THEN (CHOOSE f \in fact : f.day = d /\ f.subid = s).sales
    ELSE 0

\* C4: loading the same conversion file again leaves ConversionFact as the
\* first load left it.
C4_ConversionsIdempotent ==
  ConvDone =>
    load_conversions(After(tx), file, sale_time_col).fact_conversions_daily
      = tx.fact_conversions_daily

\* the load overwrote the counts of an existing key and inserted a new key
C4_Witness ==
  /\ ConvDone
  /\ \E f \in fact_conversions_daily :
       /\ HasKey(tx.fact_conversions_daily, f.day, f.subid)
       /\ f \notin tx.fact_conversions_daily
       /\ f.leads + f.sales > 0
  /\ \E g \in tx.fact_conversions_daily : ~ HasKey(fact_conversions_daily, g.day, g.subid)

\* C9: a sale row is counted under the day of its own sale-time value when
\* the sale-time column exists and the row's value is not empty, and under
\* the day of its own conversion-time value otherwise.
C9_SaleDayPerRow ==
  ConvDone =>
    LET SaleDay(i) == IF sale_time_col /\ file[i].sale_time # EmptyTime
                        THEN to_date(file[i].sale_time)
                        ELSE to_date(file[i].conv_time)
        Count(d, s) == Cardinality({i \in 1..Len(file) :
                         /\ row_status(file[i]) = "sale"
                         /\ row_subid(file[i]) = s
                         /\ SaleDay(i) = d})
    IN  \A d \in Days : \A s \in {row_subid(file[i]) : i \in 1..Len(file)} :
          /\ SalesAt(tx.staging_conversions_tmp, d, s) = Count(d, s)
          /\ Count(d, s) > 0 => SalesAt(tx.fact_conversions_daily, d, s) = Count(d, s)

\* one sale row falls back to its conversion time, the other has a sale time
C9_Witness ==
  /\ ConvDone
  /\ sale_time_col
  /\ Len(file) = 2
  /\ row_status(file[1]) = "sale" /\ file[1].sale_time = EmptyTime
  /\ to_date(file[1].conv_time) = 1
  /\ row_status(file[2]) = "sale" /\ to_date(file[2].sale_time) = 2
  /\ to_date(file[2].conv_time) = 1
  /\ SalesAt(tx.fact_conversions_daily, 1, "s42") = 1
  /\ SalesAt(tx.fact_conversions_daily, 2, "s42") = 1

\* C10: a failure while load_clicks processes a chunk leaves ClickFact as it
\* was just before that chunk started, and a failure of load_conversions
\* leaves ConversionFact as it was before the load started.
C10_ChunkBoundary ==
  [][ /\ (pc = "clicks" /\ result'.status = "error")
           => fact_clicks_daily' = tx.fact_clicks_daily
      /\ (pc = "conv" /\ result'.status = "error")
           => fact_conversions_daily' = fact_conversions_daily
    ]_vars

\* C10 as amended: a failure of either load leaves both fact tables as they
\* were before the load started.
C10_FileBoundary ==
  [][ (pc \in {"clicks", "conv"} /\ result'.status = "error") =>
        /\ fact_clicks_daily' = fact_clicks_daily
        /\ fact_conversions_daily' = fact_conversions_daily
    ]_vars

\* load_clicks failed in its second chunk, after its first chunk had changed
\* ClickFact inside the transaction, and ClickFact holds an earlier load
C10_Witness ==
  /\ pc = "idle"
  /\ result.status = "error"
  /\ result.kind = "clicks"
  /\ result.chunk = 2
  /\ result.dirty
  /\ fact_clicks_daily # {}

\* the days the rows of a chunk parse to
ParsedDays(chunk) == {to_date(chunk[i].time) : i \in 1..Len(chunk)} \ {NaT}

\* C15: in a replace_day load the first chunk, and no later chunk, deletes
\* ClickFact rows: after the first chunk the rows of the minimum parsed day of
\* that chunk are the chunk's own rows of that day (the delete came before
\* the insert) and every row of another day is still there; a later chunk,
\* and every chunk of an append load, keeps every row.
C15_DeleteOnceFirstChunk ==
  [][ (pc = "clicks" /\ pc' = "clicks") =>
        LET chunk == Take(rest, chunksize)
            kept(rows) == \A f \in rows : HasKey(tx'.fact_clicks_daily, f.day, f.subid)
        IN  IF mode = "replace_day" /\ chunks_done = 0
              THEN /\ ParsedDays(chunk) # {}
                   /\ DayRows(tx'.fact_clicks_daily, Min(ParsedDays(chunk)))
                        = DayRows(agg_clicks(chunk), Min(ParsedDays(chunk)))
                   /\ kept({f \in tx.fact_clicks_daily : f.day # Min(ParsedDays(chunk))})
              ELSE /\ kept(tx.fact_clicks_daily)
                   /\ mode = "append" =>
                        \A f \in tx.fact_clicks_daily :
                           ClicksAt(tx'.fact_clicks_daily, f.day, f.subid) >= f.clicks
    ]_vars

\* the first chunk of a replace_day load deleted a row of its day that it
\* does not hold itself, and a row of another day is still there
C15_Witness ==
  /\ pc = "clicks"
  /\ mode = "replace_day"
  /\ chunks_done = 1
  /\ rest # <<>>
  /\ \E f \in fact_clicks_daily :
       f.day = detected_day /\ ~ HasKey(tx.fact_clicks_daily, f.day, f.subid)
  /\ \E g \in fact_clicks_daily : g.day # detected_day /\ g \in tx.fact_clicks_daily

\* C16: after a replace_day load of a file whose parseable rows all fall on
\* one day d, every ClickFact row of day d has a tracking id that a row of
\* the file gives for day d (an empty cell being read as load_clicks reads
\* it), whatever ClickFact held before and whatever the chunk size.
C16_NoStaleRows ==
  (Done /\ mode = "replace_day" /\ Cardinality(ParsedDays(file)) = 1) =>
    \A f \in DayRows(tx.fact_clicks_daily, Min(ParsedDays(file))) :
       \E i \in 1..Len(file) :
          to_date(file[i].time) = f.day /\ row_subid(file[i]) = f.subid

\* the file has rows of one day only and not every tracking id that
\* ClickFact held for that day; a row of another day is still there
C16_Witness ==
  /\ Done
  /\ mode = "replace_day"
  /\ chunks_done = 2
  /\ ParsedDays(file) = {detected_day}
  /\ \E f \in fact_clicks_daily :
       /\ f.day = detected_day
       /\ \A i \in 1..Len(file) : row_subid(file[i]) # f.subid
       /\ ~ HasKey(tx.fact_clicks_daily, f.day, f.subid)
  /\ \E g \in fact_clicks_daily : g.day # detected_day /\ g \in tx.fact_clicks_daily

LeadsAt(fact, d, s) ==
  IF HasKey(fact, d, s)
    THEN (CHOOSE f \in fact : f.day = d /\ f.subid = s).leads
    ELSE 0

\* C17: after load_conversions of a file, every (day, tracking_id) with a
\* lead or sale row in the file holds leads = the number of rows of status
\* 'lead' (in any case) with that lead day and tracking id and sales = the
\* number of rows of status 'sale' (in any case) with that sale day and
\* tracking id; a key with no such row keeps what ConversionFact held.
C17_ConversionCounts ==
  ConvDone =>
    LET SaleDay(i) == IF sale_time_col /\ file[i].sale_time # EmptyTime
                        THEN to_date(file[i].sale_time)
                        ELSE to_date(file[i].conv_time)
        Leads(d, s) == Cardinality({i \in 1..Len(file) :
                         /\ lower(file[i].status) = "lead"
                         /\ file[i].subid = s
                         /\ to_date(file[i].conv_time) = d})
        Sales(d, s) == Cardinality({i \in 1..Len(file) :
                         /\ lower(file[i].status) = "sale"
                         /\ file[i].subid = s
                         /\ SaleDay(i) = d})
    IN  \A d \in Days :
          \A s \in {file[i].subid : i \in 1..Len(file)}
                   \cup {f.subid : f \in fact_conversions_daily} :
            IF Leads(d, s) + Sales(d, s) > 0
              THEN /\ HasKey(tx.fact_conversions_daily, d, s)
                   /\ LeadsAt(tx.fact_conversions_daily, d, s) = Leads(d, s)
                   /\ SalesAt(tx.fact_conversions_daily, d, s) = Sales(d, s)
              ELSE DayRows(tx.fact_conversions_daily, d) \cap {f \in tx.fact_conversions_daily : f.subid = s}
                     = DayRows(fact_conversions_daily, d) \cap {f \in fact_conversions_daily : f.subid = s}

\* a 'Sale' row and a row of another status share a key that held a lead:
\* the key now holds one sale and no lead
C17_Witness ==
  /\ ConvDone
  /\ Len(file) = 2
  /\ file[1].status = "Sale" /\ file[2].status = "other"
  /\ to_date(file[1].conv_time) = 1 /\ file[1].sale_time = EmptyTime
  /\ to_date(file[2].conv_time) = 1
  /\ [day |-> 1, subid |-> "s42", leads |-> 1, sales |-> 0] \in fact_conversions_daily
  /\ [day |-> 1, subid |-> "s42", leads |-> 0, sales |-> 1] \in tx.fact_conversions_daily

\* C18: no chunk of a click load inserts or updates a TrackingDimension row
\* on behalf of a row whose tracking-id field is empty: every row that a
\* chunk inserts or changes carries a non-empty tracking id of the chunk.
C18_NoEmptySubidInDim ==
  [][ (pc = "clicks" /\ pc' = "clicks") =>
        LET chunk == Take(rest, chunksize)
        IN  \A d \in tx'.dim_subid \ tx.dim_subid :
              \E i \in 1..Len(chunk) :
                 chunk[i].subid # "" /\ chunk[i].subid = d.subid
    ]_vars

\* C19: a chunk of a click file that yields no valid (day, tracking_id) row
\* is processed without error and leaves staging_clicks_daily and ClickFact
\* as they were; a conversion file that yields no lead or sale row is loaded
\* without error and leaves ConversionFact as it was.
C19_EmptyAggregateNoOp ==
  /\ (pc = "clicks" /\ rest # <<>> /\ agg_clicks(Take(rest, chunksize)) = {}) =>
        LET r == chunk_step(tx, Take(rest, chunksize), mode, detected_day)
        IN  /\ r.ok
            /\ r.tx.staging_clicks_daily = tx.staging_clicks_daily
            /\ r.tx.fact_clicks_daily = tx.fact_clicks_daily
  /\ (ConvDone /\ conv_merged(file, sale_time_col) = {}) =>
        tx.fact_conversions_daily = fact_conversions_daily

\* C21: no step of load_clicks changes ConversionFact, in the tables or in
\* what its transaction holds, and no step of load_conversions changes
\* ClickFact or TrackingDimension, whether the load commits or fails; a step
\* outside a load changes no table.
C21_TableOwnership ==
  [][ /\ (pc = "clicks" \/ pc' = "clicks") =>
           /\ fact_conversions_daily' = fact_conversions_daily
           /\ pc' = "clicks" => tx'.fact_conversions_daily = fact_conversions_daily
      /\ (pc = "conv" \/ pc' = "conv") =>
           /\ fact_clicks_daily' = fact_clicks_daily
           /\ dim_subid' = dim_subid
           /\ pc' = "conv" => /\ tx'.fact_clicks_daily = fact_clicks_daily
                              /\ tx'.dim_subid = dim_subid
      /\ (pc = "idle" /\ pc' = "idle") => Tables' = Tables
    ]_vars

\* a committed conversion load left ClickFact and TrackingDimension, which an
\* earlier click load had filled, as they were
C21_Witness ==
  /\ pc = "idle"
  /\ result.kind = "conv"
  /\ result.status = "ok"
  /\ fact_clicks_daily # {}
  /\ dim_subid # {}
  /\ fact_conversions_daily # {}

\* C22: load_conversions changes only ConversionFact rows whose
\* (day, tracking_id) has a lead or sale row in the file: every row whose key
\* the file does not give stays as it was, a key of the file's day that an
\* earlier load wrote included, and every new or changed row has a key of
\* the file.
C22_UnrelatedRowsKept ==
  ConvDone =>
    LET SaleDay(i) == IF sale_time_col /\ file[i].sale_time # EmptyTime
                        THEN to_date(file[i].sale_time)
                        ELSE to_date(file[i].conv_time)
        InFile(d, s) == \E i \in 1..Len(file) :
                          /\ astype_str(read_csv_cell(file[i].subid)) = s
                          /\ \/ lower(file[i].status) = "lead" /\ to_date(file[i].conv_time) = d
                             \/ lower(file[i].status) = "sale" /\ SaleDay(i) = d
    IN  /\ \A f \in fact_conversions_daily :
             ~ InFile(f.day, f.subid) => f \in tx.fact_conversions_daily
        /\ \A g \in tx.fact_conversions_daily \ fact_conversions_daily :
             InFile(g.day, g.subid)

\* an earlier file gave the day two tracking ids; this one gives only s42:
\* the row of s42 is rewritten and the row of s7 stays
C22_Witness ==
  /\ ConvDone
  /\ \A i \in 1..Len(file) : file[i].subid = "s42"
  /\ \E f, g \in fact_conversions_daily :
       /\ f.day = g.day
       /\ f.subid = "s7" /\ f \in tx.fact_conversions_daily
       /\ g.subid = "s42" /\ g \notin tx.fact_conversions_daily
       /\ HasKey(tx.fact_conversions_daily, g.day, g.subid)

\* C13: the dashboard query returns exactly one row for every
\* (day, tracking_id) of ClickFact or ConversionFact and no other row, with
\* clicks, leads and sales as stored, and 0 for a fact table without the key.
C13_ReaderOuterJoin ==
  df.read =>
    LET keys == KeysOf(fact_clicks_daily) \cup KeysOf(fact_conversions_daily)
    IN  /\ \A k \in keys :
             LET rs == {r \in df.rows : r.day = k[1] /\ r.subid = k[2]}
             IN  /\ Cardinality(rs) = 1
                 /\ \A r \in rs :
                      /\ r.clicks = ClicksAt(fact_clicks_daily, k[1], k[2])
                      /\ r.leads = LeadsAt(fact_conversions_daily, k[1], k[2])
                      /\ r.sales = SalesAt(fact_conversions_daily, k[1], k[2])
        /\ \A r \in df.rows : <<r.day, r.subid>> \in keys

\* the query ran on a warehouse with a key that only ClickFact holds and a
\* key that only ConversionFact holds
C13_Witness ==
  /\ df.read
  /\ \E c \in fact_clicks_daily : ~ HasKey(fact_conversions_daily, c.day, c.subid)
  /\ \E v \in fact_conversions_daily : ~ HasKey(fact_clicks_daily, v.day, v.subid)
  /\ \E r \in df.rows : r.clicks > 0 /\ r.leads = 0 /\ r.sales = 0
  /\ \E r \in df.rows : r.clicks = 0 /\ r.leads + r.sales > 0

\* C14: while a load is in progress the committed fact tables stay as they
\* were before the load; they change in the one step of the commit, to the
\* result of the whole file; and a dashboard query sees the committed tables,
\* so it sees each fact table as before the load or as after its commit.
C14_NoPartialAggregate ==
  [][ /\ (pc \in {"clicks", "conv"} /\ pc' = pc) =>
           /\ fact_clicks_daily' = fact_clicks_daily
           /\ fact_conversions_daily' = fact_conversions_daily
      /\ (pc = "clicks" /\ fact_clicks_daily' # fact_clicks_daily) =>
           /\ result'.status = "ok"
           /\ fact_clicks_daily'
                = load_clicks(Committed, file, chunksize, mode).tx.fact_clicks_daily
      /\ (pc = "conv" /\ fact_conversions_daily' # fact_conversions_daily) =>
           /\ result'.status = "ok"
           /\ fact_conversions_daily'
                = load_conversions(Committed, file, sale_time_col).fact_conversions_daily
      /\ df'.read =>
           df'.rows = read_query(fact_clicks_daily, fact_conversions_daily, dim_subid)
    ]_vars

\* the query ran after the first chunk of a replace_day load had deleted the
\* rows of the day and merged its own, and it shows the rows of before
C14_Witness ==
  /\ df.read
  /\ pc = "clicks"
  /\ mode = "replace_day"
  /\ chunks_done = 1
  /\ rest # <<>>
  /\ \E c \in fact_clicks_daily :
       /\ c.day = detected_day
       /\ c \notin tx.fact_clicks_daily
       /\ \E r \in df.rows : r.day = c.day /\ r.subid = c.subid /\ r.clicks = c.clicks

UniqueSubids(dim) == \A d, e \in dim : d.subid = e.subid => d = e

\* C12: at every point of every sequence of loads, ClickFact and
\* ConversionFact hold at most one row per (day, tracking_id) and
\* TrackingDimension at most one row per tracking_id, as committed and inside
\* the open transaction; and the staging tables the merges read hold at most
\* one row per key, so that no merge statement meets a key twice.
C12_KeyUniqueness ==
  /\ UniqueKeys(fact_clicks_daily)
  /\ UniqueKeys(fact_conversions_daily)
  /\ UniqueSubids(dim_subid)
  /\ UniqueKeys(tx.fact_clicks_daily)
  /\ UniqueKeys(tx.fact_conversions_daily)
  /\ UniqueSubids(tx.dim_subid)
  /\ UniqueKeys(tx.staging_clicks_daily)
  /\ UniqueKeys(tx.staging_conversions_tmp)
  /\ UniqueSubids(tx.staging_dim_subid_tmp)

\* a replace_day load has merged, in its second chunk, a key of another day
\* that ClickFact held from an earlier load
C12_Witness ==
  /\ Done
  /\ mode = "replace_day"
  /\ chunks_done = 2
  /\ \E f \in fact_clicks_daily :
       /\ f.day # detected_day
       /\ HasKey(tx.staging_clicks_daily, f.day, f.subid)
       /\ f \notin tx.fact_clicks_daily
  /\ dim_subid # {}

\* C20: when a merge statement reads a staging table, the table holds exactly
\* the aggregate of the chunk (staging_clicks_daily, staging_dim_subid_tmp)
\* or of the file (staging_conversions_tmp) being processed, and no row of an
\* earlier chunk or load.
C20_StagingCurrent ==
  /\ (pc = "clicks" /\ chunks_done >= 1) =>
       \* the chunk processed last
       LET from  == (chunks_done - 1) * chunksize + 1
           chunk == Take(SubSeq(file, from, Len(file)), chunksize)
       IN  /\ agg_clicks(chunk) # {} => tx.staging_clicks_daily = agg_clicks(chunk)
           /\ dim_frame(chunk) # {} =>
                tx.staging_dim_subid_tmp = copy_dim(dim_frame(chunk))
  /\ ConvDone => tx.staging_conversions_tmp = conv_merged(file, sale_time_col)

\* the second chunk was merged on a staging table that an earlier load and
\* the first chunk had filled with other rows
C20_Witness ==
  /\ Done
  /\ chunks_done = 2
  /\ staging_clicks_daily # {}
  /\ staging_clicks_daily # tx.staging_clicks_daily
  /\ tx.staging_clicks_daily # agg_clicks(Take(file, chunksize))
  /\ tx.staging_clicks_daily # {}

\* a header has a column for one of the candidates, compared trimmed and
\* without regard to case
Resolvable(h, cands) ==
  \E j \in 1..Len(h), i \in 1..Len(cands) :
     str_lower(strip(h[j])) = str_lower(strip(cands[i]))

ClickResolvable(h) == \A c \in 1..Len(click_candidates) : Resolvable(h, click_candidates[c])

ConvResolvable(h) == \A c \in 1..Len(conv_candidates) : Resolvable(h, conv_candidates[c])

\* C11: a click file with an unresolvable time, tracking-id or dimension
\* column makes load_clicks raise and leaves ClickFact, ConversionFact and
\* TrackingDimension unchanged; a conversion file with an unresolvable
\* tracking-id, status or conversion-time column makes load_conversions
\* raise and leaves them unchanged; a file whose columns resolve raises no
\* KeyError, and an unresolvable sale-time column is not an error.
C11_ResolutionFailure ==
  [][ /\ (pc = "clicks" /\ rest # <<>>) =>
           IF ClickResolvable(header)
             THEN result'.exc # "KeyError"
             ELSE /\ result'.status = "error"
                  /\ fact_clicks_daily' = fact_clicks_daily
                  /\ fact_conversions_daily' = fact_conversions_daily
                  /\ dim_subid' = dim_subid
      /\ (pc = "idle" /\ pc' # "clicks") =>
           \A f \in ColConvFiles :
             LoadConversions(f) =>
               IF ConvResolvable(f.header)
                 THEN /\ pc' = "conv"
                      /\ result'.status # "error"
                      /\ sale_time_col' = Resolvable(f.header, sale_time_candidates)
                 ELSE /\ result'.status = "error"
                      /\ fact_clicks_daily' = fact_clicks_daily
                      /\ fact_conversions_daily' = fact_conversions_daily
                      /\ dim_subid' = dim_subid
      /\ pc = "conv" => result'.exc # "KeyError"
    ]_vars

\* load_clicks raised the KeyError of a file that lacks a column, on a
\* warehouse that an earlier load had filled
C11_Witness ==
  /\ pc = "idle"
  /\ result.kind = "clicks"
  /\ result.exc = "KeyError"
  /\ fact_clicks_daily # {}
  /\ dim_subid # {}

\* C8: pick_col returns the header that equals, both trimmed, the earliest
\* candidate with such an exact match; only when no candidate has one, the
\* header that matches the earliest candidate case-insensitively and trimmed;
\* and it raises exactly when no candidate matches in either pass.
C8_ColumnResolution ==
  pick.called =>
    LET cols      == pick.columns
        cands     == pick.candidates
        Eq1(i, j) == strip(cols[j]) = strip(cands[i])
        Eq2(i, j) == str_lower(strip(cols[j])) = str_lower(strip(cands[i]))
        e1        == {i \in 1..Len(cands) : \E j \in 1..Len(cols) : Eq1(i, j)}
        e2        == {i \in 1..Len(cands) : \E j \in 1..Len(cols) : Eq2(i, j)}
    IN  IF e1 # {}
          THEN pick.found /\ \E j \in 1..Len(cols) : cols[j] = pick.col /\ Eq1(Min(e1), j)
          ELSE IF e2 # {}
            THEN pick.found /\ \E j \in 1..Len(cols) : cols[j] = pick.col /\ Eq2(Min(e2), j)
            ELSE ~ pick.found

\* C8 holds of the calls whose candidates carry no surrounding whitespace,
\* which is how every call in app.py writes them.
C8_TrimmedCandidates ==
  (\A i \in 1..Len(pick.candidates) : ~ pick.candidates[i].pad) => C8_ColumnResolution

====
